---- MODULE Spec2Model ----
(***************************************************************************)
(* A model of src/index.tsx (the "Ani Makinesi" application shell).        *)
(*                                                                         *)
(* Strings are sequences of UTF-16 code units (integers), so that the      *)
(* word segmenter, JSON, base64 and percent-encoding are computed on       *)
(* characters.  The JavaScript value undefined is the sequence <<-1>>.     *)
(***************************************************************************)
EXTENDS Integers, Sequences, FiniteSets, TLC

VARIABLES
  \* React state of App (src/index.tsx:42-60)
  query, resultText, imageUrls, loading, error, category, imageStyle,
  title, tempTitle, isTitleSet, history, isLoadingShared,
  isSpeaking, isPaused, highlightedWordIndex,
  \* environment: address bar, localStorage, Date.now(), speechSynthesis,
  \* engine events queued for the main thread, generative request in flight
  mounted, url, storage, clock, synth, synthPaused, events, gen,
  \* observation only: the step just taken, what the next startup should
  \* load, appends since the last startup, where the shown result came from
  last, expected, appended, origin,
  \* the pure-function specifications: input, output, position
  pfIn, pfOut, pfPc

appVars == <<query, resultText, imageUrls, loading, error, category, imageStyle,
             title, tempTitle, isTitleSet, history, isLoadingShared,
             isSpeaking, isPaused, highlightedWordIndex>>
envVars == <<mounted, url, storage, clock, synth, synthPaused, events, gen>>
obsVars == <<last, expected, appended, origin>>
pfVars == <<pfIn, pfOut, pfPc>>
vars == <<appVars, envVars, obsVars, pfVars>>

----
\* Bounds of the model.
MaxTextLen == 4
MaxFieldLen == 2
MaxAppends == 2
MaxEvents == 2

----
\* JavaScript values.
Undefined == <<-1>>
Truthy(s) == s # Undefined /\ s # <<>>

\* \s of a JavaScript regular expression and of String.prototype.trim
\* (the white space and line terminator code units).
IsSpace(c) == c \in {9, 10, 11, 12, 13, 32, 160, 5760, 8232, 8233, 8239, 8287, 12288, 65279}
                 \/ (c >= 8192 /\ c <= 8202)

RECURSIVE TrimStart(_)
TrimStart(s) == IF s # <<>> /\ IsSpace(Head(s)) THEN TrimStart(Tail(s)) ELSE s

RECURSIVE TrimEnd(_)
TrimEnd(s) ==
  IF s # <<>> /\ IsSpace(s[Len(s)]) THEN TrimEnd(SubSeq(s, 1, Len(s) - 1)) ELSE s

Trim(s) == TrimEnd(TrimStart(s))

\* The concatenation of the sequences ss[lo..hi], by halves.
RECURSIVE ConcatRange(_, _, _)
ConcatRange(ss, lo, hi) ==
  IF lo > hi THEN <<>>
  ELSE IF lo = hi THEN ss[lo]
  ELSE ConcatRange(ss, lo, (lo + hi) \div 2) \o ConcatRange(ss, (lo + hi) \div 2 + 1, hi)

Concat(ss) == ConcatRange(ss, 1, Len(ss))

----
\* Word segmenter (textParts, wordMap).

\* The length of the longest prefix of s[i..] whose characters all satisfy
\* (space = TRUE) or all fail (space = FALSE) IsSpace.
RECURSIVE RunLen(_, _, _)
RunLen(s, i, space) ==
  IF i <= Len(s) /\ IsSpace(s[i]) = space THEN 1 + RunLen(s, i + 1, space) ELSE 0

\* resultText.match(/\S+\s*/g) from position i: the scan skips to the next
\* non-space character, takes the run of non-space characters and the run
\* of space characters after it, and goes on behind the match.
RECURSIVE MatchWords(_, _)
MatchWords(s, i) ==
  IF i > Len(s) THEN <<>>
  ELSE IF IsSpace(s[i]) THEN MatchWords(s, i + 1)
  ELSE LET w == RunLen(s, i, FALSE)
           t == RunLen(s, i + w, TRUE)
       IN  <<SubSeq(s, i, i + w + t - 1)>> \o MatchWords(s, i + w + t)

\* String.prototype.match with a global expression returns null when there
\* is no match; `|| []` turns that into the empty list.
TextParts(s) == IF ~Truthy(s) THEN <<>> ELSE MatchWords(s, 1)

\* charCount before part k: the sum of the lengths of the parts before it.
RECURSIVE CharCountBefore(_, _)
CharCountBefore(parts, k) ==
  IF k <= 1 THEN 0 ELSE CharCountBefore(parts, k - 1) + Len(parts[k - 1])

WordMapOf(parts) ==
  [k \in 1..Len(parts) |-> [word |-> parts[k], startIndex |-> CharCountBefore(parts, k)]]

WordMap(s) == WordMapOf(TextParts(s))

\* The loop of utterance.onboundary: the index (0-based) of the last span
\* of the leading run of spans with startIndex <= charIndex, -1 if none.
RECURSIVE ScanWordMap(_, _, _, _)
ScanWordMap(wm, charIndex, i, cur) ==
  IF i >= Len(wm) THEN cur
  ELSE IF wm[i + 1].startIndex <= charIndex THEN ScanWordMap(wm, charIndex, i + 1, i)
  ELSE cur

BoundaryWordIndexFirstAfter(wm, charIndex) ==
  IF \E i \in 1..Len(wm) : wm[i].startIndex >= charIndex
  THEN (CHOOSE i \in 1..Len(wm) :
          /\ wm[i].startIndex >= charIndex
          /\ \A j \in 1..Len(wm) : wm[j].startIndex >= charIndex => j >= i) - 1
  ELSE -1
BoundaryWordIndex(wm, charIndex) == ScanWordMap(wm, charIndex, 0, -1)

----
\* JSON.  A JSON value is [t, s, n, items]: t is "str" (s its characters),
\* "num" (n), "null", "arr" (items: [k |-> <<>>, v |-> element]) or "obj"
\* (items: [k |-> key, v |-> value], in insertion order).
JNull == [t |-> "null", s |-> <<>>, n |-> 0, items |-> <<>>]
JStr(s) == [t |-> "str", s |-> s, n |-> 0, items |-> <<>>]
JNum(n) == [t |-> "num", s |-> <<>>, n |-> n, items |-> <<>>]
JArr(vals) ==
  [t |-> "arr", s |-> <<>>, n |-> 0,
   items |-> [i \in 1..Len(vals) |-> [k |-> <<>>, v |-> vals[i]]]]
JObj(pairs) == [t |-> "obj", s |-> <<>>, n |-> 0, items |-> pairs]

HexLower(n) == IF n < 10 THEN 48 + n ELSE 87 + n
HexUpper(n) == IF n < 10 THEN 48 + n ELSE 55 + n
HexVal(c) ==
  IF c >= 48 /\ c <= 57 THEN c - 48
  ELSE IF c >= 65 /\ c <= 70 THEN c - 55
  ELSE IF c >= 97 /\ c <= 102 THEN c - 87
  ELSE -1

\* QuoteJSONString: the escapes of one code unit.
JsonEscape(c) ==
  CASE c = 34 -> <<92, 34>>
    [] c = 92 -> <<92, 92>>
    [] c = 8 -> <<92, 98>>
    [] c = 12 -> <<92, 102>>
    [] c = 10 -> <<92, 110>>
    [] c = 13 -> <<92, 114>>
    [] c = 9 -> <<92, 116>>
    [] OTHER ->
         IF c < 32 \/ (c >= 55296 /\ c <= 57343)
         THEN <<92, 117, HexLower(c \div 4096), HexLower((c \div 256) % 16),
                HexLower((c \div 16) % 16), HexLower(c % 16)>>
         ELSE <<c>>

JsonQuote(s) == <<34>> \o Concat([i \in 1..Len(s) |-> JsonEscape(s[i])]) \o <<34>>

RECURSIVE DecStr(_)
DecStr(n) == IF n < 10 THEN <<48 + n>> ELSE DecStr(n \div 10) \o <<48 + (n % 10)>>

RECURSIVE JsonStringify(_)
RECURSIVE JsonJoin(_, _)
JsonJoin(items, isObj) ==
  IF items = <<>> THEN <<>>
  ELSE (IF isObj THEN JsonQuote(Head(items).k) \o <<58>> ELSE <<>>)
       \o JsonStringify(Head(items).v)
       \o (IF Len(items) > 1 THEN <<44>> ELSE <<>>)
       \o JsonJoin(Tail(items), isObj)

\* JSON.stringify of a value (numbers are the non-negative integers).
JsonStringify(j) ==
  CASE j.t = "str" -> JsonQuote(j.s)
    [] j.t = "num" -> DecStr(j.n)
    [] j.t = "null" -> <<110, 117, 108, 108>>
    [] j.t = "arr" -> <<91>> \o JsonJoin(j.items, FALSE) \o <<93>>
    [] j.t = "obj" -> <<123>> \o JsonJoin(j.items, TRUE) \o <<125>>

\* JSON.parse, by recursive descent.  A result is [ok, val, pos]: pos is
\* the index behind what was read.  Numbers are read as integers without
\* sign, fraction or exponent, and the literals true and false are not
\* read: no text of the model holds them.
JFail == [ok |-> FALSE, val |-> JNull, pos |-> 0]
JOk(v, p) == [ok |-> TRUE, val |-> v, pos |-> p]

RECURSIVE SkipWs(_, _)
SkipWs(s, i) ==
  IF i <= Len(s) /\ s[i] \in {9, 10, 13, 32} THEN SkipWs(s, i + 1) ELSE i

RECURSIVE ParseString(_, _, _)
ParseString(s, i, acc) ==
  IF i > Len(s) THEN JFail
  ELSE IF s[i] = 34 THEN JOk(JStr(acc), i + 1)
  ELSE IF s[i] < 32 THEN JFail
  ELSE IF s[i] # 92 THEN ParseString(s, i + 1, Append(acc, s[i]))
  ELSE IF i + 1 > Len(s) THEN JFail
  ELSE LET e == s[i + 1] IN
       CASE e \in {34, 92, 47} -> ParseString(s, i + 2, Append(acc, e))
         [] e = 98 -> ParseString(s, i + 2, Append(acc, 8))
         [] e = 102 -> ParseString(s, i + 2, Append(acc, 12))
         [] e = 110 -> ParseString(s, i + 2, Append(acc, 10))
         [] e = 114 -> ParseString(s, i + 2, Append(acc, 13))
         [] e = 116 -> ParseString(s, i + 2, Append(acc, 9))
         [] e = 117 ->
              IF i + 5 <= Len(s) /\ \A k \in 2..5 : HexVal(s[i + k]) >= 0
              THEN ParseString(s, i + 6,
                     Append(acc, HexVal(s[i + 2]) * 4096 + HexVal(s[i + 3]) * 256
                                 + HexVal(s[i + 4]) * 16 + HexVal(s[i + 5])))
              ELSE JFail
         [] OTHER -> JFail

RECURSIVE ParseDigits(_, _, _)
ParseDigits(s, i, acc) ==
  IF i <= Len(s) /\ s[i] >= 48 /\ s[i] <= 57
  THEN ParseDigits(s, i + 1, acc * 10 + (s[i] - 48))
  ELSE JOk(JNum(acc), i)

ParseNumber(s, i) ==
  IF s[i] = 48 /\ i + 1 <= Len(s) /\ s[i + 1] >= 48 /\ s[i + 1] <= 57
  THEN JFail
  ELSE ParseDigits(s, i, 0)

RECURSIVE ParseValue(_, _)
RECURSIVE ParseElements(_, _, _)
RECURSIVE ParseMembers(_, _, _)

\* after an element: "," or "]"
ElementEnd(s, acc, j) ==
  IF j > Len(s) THEN JFail
  ELSE IF s[j] = 44 THEN ParseElements(s, j + 1, acc)
  ELSE IF s[j] = 93 THEN JOk(JArr(acc), j + 1)
  ELSE JFail

ElementRead(s, acc, r) ==
  IF ~r.ok THEN JFail ELSE ElementEnd(s, Append(acc, r.val), SkipWs(s, r.pos))

\* after "[" or after a ",": an element, then "," or "]"
ParseElements(s, i, acc) == ElementRead(s, acc, ParseValue(s, SkipWs(s, i)))

\* after a member: "," or "}"
MemberEnd(s, acc, j) ==
  IF j > Len(s) THEN JFail
  ELSE IF s[j] = 44 THEN ParseMembers(s, j + 1, acc)
  ELSE IF s[j] = 125 THEN JOk(JObj(acc), j + 1)
  ELSE JFail

MemberRead(s, acc, key, r) ==
  IF ~r.ok THEN JFail
  ELSE MemberEnd(s, Append(acc, [k |-> key, v |-> r.val]), SkipWs(s, r.pos))

MemberValue(s, acc, key, c) ==
  IF c > Len(s) \/ s[c] # 58 THEN JFail
  ELSE MemberRead(s, acc, key, ParseValue(s, SkipWs(s, c + 1)))

MemberColon(s, acc, key) ==
  IF ~key.ok THEN JFail ELSE MemberValue(s, acc, key.val.s, SkipWs(s, key.pos))

MemberKey(s, acc, a) ==
  IF a > Len(s) \/ s[a] # 34 THEN JFail
  ELSE MemberColon(s, acc, ParseString(s, a + 1, <<>>))

\* after "{" or after a ",": "key" : value, then "," or "}"
ParseMembers(s, i, acc) == MemberKey(s, acc, SkipWs(s, i))

ParseValue(s, i) ==
  IF i > Len(s) THEN JFail
  ELSE CASE s[i] = 34 -> ParseString(s, i + 1, <<>>)
         [] s[i] >= 48 /\ s[i] <= 57 -> ParseNumber(s, i)
         [] s[i] = 110 ->
              IF i + 3 <= Len(s) /\ SubSeq(s, i, i + 3) = <<110, 117, 108, 108>>
              THEN JOk(JNull, i + 4) ELSE JFail
         [] s[i] = 91 ->
              LET j == SkipWs(s, i + 1) IN
              IF j <= Len(s) /\ s[j] = 93 THEN JOk(JArr(<<>>), j + 1)
              ELSE ParseElements(s, i + 1, <<>>)
         [] s[i] = 123 ->
              LET j == SkipWs(s, i + 1) IN
              IF j <= Len(s) /\ s[j] = 125 THEN JOk(JObj(<<>>), j + 1)
              ELSE ParseMembers(s, i + 1, <<>>)
         [] OTHER -> JFail

\* JSON.parse(s): ok = FALSE is the SyntaxError.
ParseEnd(s, r) == IF r.ok /\ SkipWs(s, r.pos) > Len(s) THEN r ELSE JFail
JsonParse(s) == ParseEnd(s, ParseValue(s, SkipWs(s, 1)))

\* value[key] for a parsed value that is not null: the last member of that
\* name of an object, undefined otherwise.
RECURSIVE JGet(_, _)
JGet(items, key) ==
  IF items = <<>> THEN [found |-> FALSE, v |-> JNull]
  ELSE IF items[Len(items)].k = key THEN [found |-> TRUE, v |-> items[Len(items)].v]
  ELSE JGet(SubSeq(items, 1, Len(items) - 1), key)

\* A string-valued property as the application's string; a number as
\* itself is read with JNumField.  (The texts of the model hold string and
\* number properties only.)
JStrField(j, key) ==
  LET g == JGet(j.items, key) IN
  IF j.t = "obj" /\ g.found /\ g.v.t = "str" THEN g.v.s ELSE Undefined

JNumField(j, key) ==
  LET g == JGet(j.items, key) IN
  IF j.t = "obj" /\ g.found /\ g.v.t = "num" THEN g.v.n ELSE -1

----
\* base64: btoa and atob.
B64Char(n) ==
  IF n < 26 THEN 65 + n
  ELSE IF n < 52 THEN 97 + (n - 26)
  ELSE IF n < 62 THEN 48 + (n - 52)
  ELSE IF n = 62 THEN 43 ELSE 47

B64Val(c) ==
  IF c >= 65 /\ c <= 90 THEN c - 65
  ELSE IF c >= 97 /\ c <= 122 THEN c - 97 + 26
  ELSE IF c >= 48 /\ c <= 57 THEN c - 48 + 52
  ELSE IF c = 43 THEN 62
  ELSE IF c = 47 THEN 63
  ELSE -1

\* The four characters of the k-th group of three bytes (the last group
\* may hold one or two bytes and is padded with "=").
B64Group(b, k) ==
  LET i == 3 * k - 2 IN
  IF i = Len(b)
  THEN <<B64Char(b[i] \div 4), B64Char((b[i] % 4) * 16), 61, 61>>
  ELSE IF i + 1 = Len(b)
  THEN <<B64Char(b[i] \div 4), B64Char(((b[i] % 4) * 16) + (b[i + 1] \div 16)),
         B64Char((b[i + 1] % 16) * 4), 61>>
  ELSE <<B64Char(b[i] \div 4), B64Char(((b[i] % 4) * 16) + (b[i + 1] \div 16)),
         B64Char(((b[i + 1] % 16) * 4) + (b[i + 2] \div 64)), B64Char(b[i + 2] % 64)>>

B64Encode(b) == Concat([k \in 1..((Len(b) + 2) \div 3) |-> B64Group(b, k)])

\* btoa(s): InvalidCharacterError (ok = FALSE) when a code unit is above 255.
Btoa(s) ==
  IF \E i \in 1..Len(s) : s[i] > 255
  THEN [ok |-> FALSE, v |-> <<>>]
  ELSE [ok |-> TRUE, v |-> B64Encode(s)]

\* The bytes of the k-th group of four characters (the last group may
\* hold two or three; its left-over bits are dropped).
B64Bytes(c, k) ==
  LET i == 4 * k - 3
      v(j) == B64Val(c[i + j])
  IN  IF i + 1 > Len(c) THEN <<>>
      ELSE IF i + 1 = Len(c) THEN <<(v(0) * 4) + (v(1) \div 16)>>
      ELSE IF i + 2 = Len(c)
      THEN <<(v(0) * 4) + (v(1) \div 16), ((v(1) % 16) * 16) + (v(2) \div 4)>>
      ELSE <<(v(0) * 4) + (v(1) \div 16), ((v(1) % 16) * 16) + (v(2) \div 4),
             ((v(2) % 4) * 64) + v(3)>>

B64Decode(c) == Concat([k \in 1..((Len(c) + 3) \div 4) |-> B64Bytes(c, k)])

StripAsciiWs(s) == SelectSeq(s, LAMBDA c : c \notin {9, 10, 12, 13, 32})

\* atob(s), the forgiving-base64 decode: ASCII white space is removed, one
\* or two "=" are removed from a length that is a multiple of 4, and the
\* rest must be base64 characters with a length that is not 1 modulo 4.
AtobData(b) ==
  IF Len(b) % 4 = 1 \/ \E i \in 1..Len(b) : B64Val(b[i]) < 0
  THEN [ok |-> FALSE, v |-> <<>>]
  ELSE [ok |-> TRUE, v |-> B64Decode(b)]

AtobStripped(a, n) ==
  AtobData(IF n % 4 = 0 /\ n > 0 /\ a[n] = 61
           THEN (IF a[n - 1] = 61 THEN SubSeq(a, 1, n - 2) ELSE SubSeq(a, 1, n - 1))
           ELSE a)

Atob(s) == AtobStripped(StripAsciiWs(s), Len(StripAsciiWs(s)))

----
\* Percent-encoding.

\* The characters encodeURIComponent leaves alone: A-Z a-z 0-9 - _ . ! ~ * ' ( )
UriUnreserved(c) ==
  \/ (c >= 65 /\ c <= 90) \/ (c >= 97 /\ c <= 122) \/ (c >= 48 /\ c <= 57)
  \/ c \in {45, 95, 46, 33, 126, 42, 39, 40, 41}

PctByte(b) == <<37, HexUpper(b \div 16), HexUpper(b % 16)>>

\* The UTF-8 bytes of a code unit below the surrogates' range or above it.
Utf8Of(c) ==
  IF c < 128 THEN <<c>>
  ELSE IF c < 2048 THEN <<192 + (c \div 64), 128 + (c % 64)>>
  ELSE <<224 + (c \div 4096), 128 + ((c \div 64) % 64), 128 + (c % 64)>>

UriEncodeChar(c) ==
  IF UriUnreserved(c) THEN <<c>>
  ELSE Concat([k \in 1..Len(Utf8Of(c)) |-> PctByte(Utf8Of(c)[k])])

\* encodeURIComponent(s); a surrogate code unit (a URIError when it is
\* unpaired, four bytes when paired) is outside the texts of the model.
EncodeURIComponent(s) ==
  IF \E i \in 1..Len(s) : s[i] >= 55296 /\ s[i] <= 57343
  THEN [ok |-> FALSE, v |-> <<>>]
  ELSE [ok |-> TRUE, v |-> Concat([i \in 1..Len(s) |-> UriEncodeChar(s[i])])]

\* The byte of the escape %XX at s[i..i+2], -1 when there is none.
PctAt(s, i) ==
  IF i >= 1 /\ i + 2 <= Len(s) /\ s[i] = 37 /\ HexVal(s[i + 1]) >= 0 /\ HexVal(s[i + 2]) >= 0
  THEN HexVal(s[i + 1]) * 16 + HexVal(s[i + 2])
  ELSE -1

IsCont(b) == b >= 128 /\ b <= 191

\* The code point of a well-formed UTF-8 sequence of two bytes, of three
\* bytes (not over-long, no surrogate); -1 otherwise.
Utf8Two(b1, b2) ==
  IF b1 >= 194 /\ b1 <= 223 /\ IsCont(b2) THEN (b1 - 192) * 64 + (b2 - 128) ELSE -1

Utf8Three(b1, b2, b3) ==
  LET cp == (b1 - 224) * 4096 + (b2 - 128) * 64 + (b3 - 128) IN
  IF b1 >= 224 /\ b1 <= 239 /\ IsCont(b2) /\ IsCont(b3) /\ cp >= 2048
     /\ ~(cp >= 55296 /\ cp <= 57343)
  THEN cp ELSE -1

\* decodeURIComponent(s): ok = FALSE is the URIError.  Every "%" must
\* start an escape (the two characters behind an escape are hexadecimal
\* digits, so no escape starts inside another one), and the bytes of the
\* escapes must be well-formed UTF-8 of one, two or three bytes (four
\* bytes, a surrogate pair, are outside the texts of the model and are
\* refused here).  Position i of s becomes: nothing (inside an escape, or
\* the escape of a continuation byte), one character, or an error (-1).
UriPiece(s, i) ==
  IF s[i] # 37
  THEN IF (i >= 2 /\ s[i - 1] = 37) \/ (i >= 3 /\ s[i - 2] = 37) THEN <<>> ELSE <<s[i]>>
  ELSE LET b == PctAt(s, i)
           two(j) == Utf8Two(PctAt(s, j), PctAt(s, j + 3))
           three(j) == Utf8Three(PctAt(s, j), PctAt(s, j + 3), PctAt(s, j + 6))
       IN  IF b < 0 THEN <<-1>>
           ELSE IF b < 128 THEN <<b>>
           ELSE IF two(i) >= 0 THEN <<two(i)>>
           ELSE IF three(i) >= 0 THEN <<three(i)>>
           ELSE IF IsCont(b) /\ (two(i - 3) >= 0 \/ three(i - 3) >= 0 \/ three(i - 6) >= 0)
           THEN <<>>
           ELSE <<-1>>

UriJoin(pieces) ==
  IF \E i \in 1..Len(pieces) : pieces[i] = <<-1>>
  THEN [ok |-> FALSE, v |-> <<>>]
  ELSE [ok |-> TRUE, v |-> Concat(pieces)]

DecodeURIComponent(s) == UriJoin([i \in 1..Len(s) |-> UriPiece(s, i)])

\* URLSearchParams.get: "+" is a space, a complete escape is its byte, an
\* incomplete one stays as written; the bytes are then read as UTF-8, a
\* byte that starts no well-formed sequence becoming U+FFFD.
FormPiece(s, i) ==
  IF PctAt(s, i - 1) >= 0 \/ PctAt(s, i - 2) >= 0 THEN <<>>
  ELSE IF s[i] = 43 THEN <<32>>
  ELSE IF PctAt(s, i) >= 0 THEN <<PctAt(s, i)>>
  ELSE Utf8Of(s[i])


LossyPiece(b, i) ==
  LET at(j) == IF j >= 1 /\ j <= Len(b) THEN b[j] ELSE -1
      two(j) == Utf8Two(at(j), at(j + 1))
      three(j) == Utf8Three(at(j), at(j + 1), at(j + 2))
  IN  IF b[i] < 128 THEN <<b[i]>>
      ELSE IF two(i) >= 0 THEN <<two(i)>>
      ELSE IF three(i) >= 0 THEN <<three(i)>>
      ELSE IF IsCont(b[i]) /\ (two(i - 1) >= 0 \/ three(i - 1) >= 0 \/ three(i - 2) >= 0)
      THEN <<>>
      ELSE <<65533>>

Utf8Lossy(b) == Concat([i \in 1..Len(b) |-> LossyPiece(b, i)])
FormBytes(s) == Concat([i \in 1..Len(s) |-> FormPiece(s, i)])

SearchParamGet(raw) == Utf8Lossy(FormBytes(raw))

----
\* The strings of the program.
KTitle == <<116, 105, 116, 108, 101>>
KResultText == <<114, 101, 115, 117, 108, 116, 84, 101, 120, 116>>
KQuery == <<113, 117, 101, 114, 121>>
KCategory == <<99, 97, 116, 101, 103, 111, 114, 121>>
KImageStyle == <<105, 109, 97, 103, 101, 83, 116, 121, 108, 101>>
KId == <<105, 100>>
KImageUrl == <<105, 109, 97, 103, 101, 85, 114, 108>>

CatGeneral == <<103, 101, 110, 101, 114, 97, 108>>
CatDream == <<100, 114, 101, 97, 109>>
StyleFadedPhoto == <<102, 97, 100, 101, 100, 45, 112, 104, 111, 116, 111>>
StyleSketch == <<115, 107, 101, 116, 99, 104>>

\* `data:image/jpeg;base64,${img.image.imageBytes}`
DataUrl(imageBytes) ==
  <<100, 97, 116, 97, 58, 105, 109, 97, 103, 101, 47, 106, 112, 101, 103, 59,
    98, 97, 115, 101, 54, 52, 44>> \o imageBytes

\* What getItem and URLSearchParams.get return for a missing entry (null).
NoItem == <<-2>>

\* The properties of an object literal whose value is not undefined, as
\* JSON.stringify writes them.
RECURSIVE DefinedProps(_)
DefinedProps(pairs) ==
  IF pairs = <<>> THEN <<>>
  ELSE (IF Head(pairs).v = Undefined THEN <<>>
        ELSE <<[k |-> Head(pairs).k, v |-> JStr(Head(pairs).v)]>>)
       \o DefinedProps(Tail(pairs))

----
\* Share codec (handleCopyLink, handleSharedMemory).

\* dataToShare, in the order of its object literal.
SharedDataJson(d) ==
  JObj(DefinedProps(<<[k |-> KTitle, v |-> d.title],
                      [k |-> KResultText, v |-> d.resultText],
                      [k |-> KQuery, v |-> d.query],
                      [k |-> KCategory, v |-> d.category],
                      [k |-> KImageStyle, v |-> d.imageStyle]>>))

\* encodeURIComponent(btoa(JSON.stringify(dataToShare))): ok = FALSE when
\* btoa throws, and handleCopyLink ends there with an uncaught exception.
EncodeShare(d) ==
  LET base64Data == Btoa(JsonStringify(SharedDataJson(d))) IN
  IF ~base64Data.ok THEN [ok |-> FALSE, v |-> <<>>] ELSE EncodeURIComponent(base64Data.v)

\* JSON.parse(atob(decodeURIComponent(sharedData))): stage names the call
\* that threw ("" when none did), val is the parsed value.
ParsedShare(j) ==
  IF ~j.ok THEN [stage |-> "json", val |-> JNull] ELSE [stage |-> "", val |-> j.val]
DecodedShare(a) ==
  IF ~a.ok THEN [stage |-> "base64", val |-> JNull] ELSE ParsedShare(JsonParse(a.v))
UnescapedShare(u) ==
  IF ~u.ok THEN [stage |-> "percent", val |-> JNull] ELSE DecodedShare(Atob(u.v))
ParseShare(sharedData) == UnescapedShare(DecodeURIComponent(sharedData))

\* The five property reads of decodedData (a TypeError on null).
SharedFields(val) ==
  [title |-> JStrField(val, KTitle), resultText |-> JStrField(val, KResultText),
   query |-> JStrField(val, KQuery), category |-> JStrField(val, KCategory),
   imageStyle |-> JStrField(val, KImageStyle)]

\* The try block of handleSharedMemory up to its first setter: ok = FALSE
\* when an exception reaches the catch clause.
ReadShared(p) ==
  IF p.stage # "" \/ p.val.t = "null"
  THEN [ok |-> FALSE, d |-> SharedFields(JNull)]
  ELSE [ok |-> TRUE, d |-> SharedFields(p.val)]
DecodeShared(sharedData) == ReadShared(ParseShare(sharedData))

----
\* History store (handleSetTitle, the load in the mount effect).
MemoryJson(m) ==
  JObj(<<[k |-> KId, v |-> JNum(m.id)]>>
       \o DefinedProps(<<[k |-> KTitle, v |-> m.title],
                         [k |-> KQuery, v |-> m.query],
                         [k |-> KCategory, v |-> m.category],
                         [k |-> KImageStyle, v |-> m.imageStyle],
                         [k |-> KResultText, v |-> m.resultText],
                         [k |-> KImageUrl, v |-> m.imageUrl]>>))

HistoryJson(h) == JArr([i \in 1..Len(h) |-> MemoryJson(h[i])])

\* A parsed element read as a Memory (a property it lacks reads undefined).
JsonMemory(j) ==
  [id |-> JNumField(j, KId), title |-> JStrField(j, KTitle),
   query |-> JStrField(j, KQuery), category |-> JStrField(j, KCategory),
   imageStyle |-> JStrField(j, KImageStyle), resultText |-> JStrField(j, KResultText),
   imageUrl |-> JStrField(j, KImageUrl)]

JsonHistory(j) == [i \in 1..Len(j.items) |-> JsonMemory(j.items[i].v)]

\* [newMemory, ...prevHistory]
PrependMemoryLast(prevHistory, newMemory) == Append(prevHistory, newMemory)
PrependMemory(prevHistory, newMemory) == <<newMemory>> \o prevHistory

\* localStorage.setItem('aniMakinesiHistory', JSON.stringify(updatedHistory));
\* a setItem that throws (the quota) leaves the entry as it was.
SaveHistory(store, updatedHistory, writeOk) ==
  IF writeOk THEN JsonStringify(HistoryJson(updatedHistory)) ELSE store

\* The try/catch that loads the history: the history state after it and
\* the entry after it.  A null or empty entry is skipped by `if
\* (savedHistory)`; a SyntaxError removes the entry.
LoadParsedKeep(store, j) ==
  IF ~j.ok THEN [history |-> <<>>, store |-> store]
  ELSE [history |-> JsonHistory(j.val), store |-> store]
LoadParsed(store, j) ==
  IF ~j.ok THEN [history |-> <<>>, store |-> NoItem]
  ELSE [history |-> JsonHistory(j.val), store |-> store]
LoadHistory(store) ==
  IF store = NoItem \/ store = <<>> THEN [history |-> <<>>, store |-> store]
  ELSE LoadParsed(store, JsonParse(store))

----
\* Inputs of the model: what the user types and picks, what the service
\* answers, what the address bar and localStorage hold at startup.
SeqsUpTo(S, n) == UNION {[1..k -> S] : k \in 0..n}

Queries == {<<109>>, <<32>>}
TempTitles == {<<32, 84>>}
Categories == {CatDream}
Styles == {StyleSketch}
\* textResponse.text: "a b", " a" (leading white space), " " (only white space)
GenTexts == {<<97, 32, 98>>, <<32, 97>>, <<32>>}
\* the narrative of the runs that follow the history
MemoryTexts == {<<97, 32, 98>>}
GenImages == <<DataUrl(<<65>>), DataUrl(<<66>>)>>
ImageOutcomes == {"ok", "reject", "malformed"}

StoredMemory ==
  [id |-> 0, title |-> <<72>>, query |-> <<>>, category |-> CatGeneral,
   imageStyle |-> StyleFadedPhoto, resultText |-> <<97, 32, 98>>,
   imageUrl |-> DataUrl(<<65>>)]
\* no entry, an empty entry, a cut-off text, a snapshot of one memory
StorageInputs ==
  {NoItem, <<>>, <<91, 123>>, JsonStringify(HistoryJson(<<StoredMemory>>))}

SharedSample ==
  [title |-> <<84>>, resultText |-> <<97, 32, 98>>, query |-> <<109>>,
   category |-> CatDream, imageStyle |-> StyleSketch]
TokenOfText(jsonText) == EncodeURIComponent(Btoa(jsonText).v).v
\* no parameter; a link the application made; "%"; "!"; the token of "{";
\* of an object without a title; of null
LaunchParams ==
  {NoItem, EncodeShare(SharedSample).v, <<37>>, <<33>>, TokenOfText(<<123>>),
   TokenOfText(JsonStringify(SharedDataJson([SharedSample EXCEPT !.title = Undefined]))),
   TokenOfText(<<110, 117, 108, 108>>)}

\* How the claim about malformed tokens names a launch parameter.
ClassOfShare(sharedData, p) ==
  IF sharedData = <<>> THEN "none"
  ELSE IF p.stage # "" THEN p.stage
  ELSE IF p.val.t # "obj" \/ \E k \in {KTitle, KResultText, KQuery, KCategory, KImageStyle} :
                               JStrField(p.val, k) = Undefined
  THEN "missing"
  ELSE "valid"
TokenClass(raw) ==
  IF raw = NoItem THEN "none"
  ELSE ClassOfShare(SearchParamGet(raw), ParseShare(SearchParamGet(raw)))

----
\* The speech engine (speechSynthesis) and its events.
Utterance(text) == [text |-> text, speaking |-> FALSE, pos |-> -1]
Ev(type, text, charIndex, stale) ==
  [type |-> type, text |-> text, charIndex |-> charIndex, stale |-> stale]

\* The events of utterances that cancel() removed: the engine may report
\* the removal as an error, the end of a spoken utterance also as an end,
\* or not at all.
CancelEventsOf(u) ==
  {<<>>, <<Ev("error", u.text, 0, TRUE)>>}
    \cup (IF u.speaking THEN {<<Ev("end", u.text, 0, TRUE)>>} ELSE {})

RECURSIVE CancelEvents(_)
CancelEvents(q) ==
  IF q = <<>> THEN {<<>>}
  ELSE {a \o b : a \in CancelEventsOf(Head(q)), b \in CancelEvents(Tail(q))}

MarkStale(evs) == [i \in 1..Len(evs) |-> [evs[i] EXCEPT !.stale = TRUE]]

\* speechSynthesis.speaking: true while an utterance is spoken; for one
\* that is queued and has not begun, engines differ.
SpeakingReads(q) ==
  IF q = <<>> THEN {FALSE} ELSE IF Head(q).speaking THEN {TRUE} ELSE {TRUE, FALSE}

\* speechSynthesis.cancel(); ...; speechSynthesis.speak(utterance)
StartQueueKeep(q, text) == Append(q, Utterance(text))
StartQueue(q, text) == <<Utterance(text)>>

\* speechSynthesis.cancel() with evs the events the engine reports for it.
Cancel(evs) ==
  /\ evs \in CancelEvents(synth)
  /\ Len(events) + Len(evs) <= MaxEvents
  /\ events' = MarkStale(events) \o evs

\* if (speechSynthesis.speaking) speechSynthesis.cancel();
CancelIfSpeaking ==
  \E sp \in SpeakingReads(synth) :
    IF sp THEN (\E evs \in CancelEvents(synth) : Cancel(evs)) /\ synth' = <<>>
    ELSE UNCHANGED <<synth, events>>

----
\* Observation records.
Step(op, tag, num, txt) == [op |-> op, tag |-> tag, num |-> num, txt |-> txt]
GenNone == [kind |-> "none", query |-> <<>>, category |-> <<>>, imageStyle |-> <<>>]
\* Where the result on the page came from: a generation (with the query
\* its prompts were built from), the history or a shared link; and how
\* many memories it has put into the history.
Origin(kind, userQuery) == [kind |-> kind, query |-> userQuery, entries |-> 0]
OriginNone == Origin("none", <<>>)

----
\* The application shell.

\* useState initial values, before the mount effect has run.
FreshApp ==
  /\ query = <<>> /\ resultText = <<>> /\ imageUrls = <<>> /\ loading = FALSE
  /\ error = "" /\ category = CatGeneral /\ imageStyle = StyleFadedPhoto
  /\ title = <<>> /\ tempTitle = <<>> /\ isTitleSet = FALSE /\ history = <<>>
  /\ isLoadingShared = TRUE /\ isSpeaking = FALSE /\ isPaused = FALSE
  /\ highlightedWordIndex = -1

Init ==
  /\ FreshApp
  /\ mounted = FALSE
  /\ url \in LaunchParams
  /\ storage \in StorageInputs
  /\ clock = 0
  /\ synth = <<>> /\ synthPaused = FALSE /\ events = <<>>
  /\ gen = GenNone
  /\ last = Step("init", "", 0, <<>>)
  /\ expected = [known |-> FALSE, list |-> <<>>]
  /\ appended = 0
  /\ origin = OriginNone
  /\ pfIn = <<>> /\ pfOut = <<>> /\ pfPc = "app"

\* What the render shows (the guards of the JSX).
Shown == mounted /\ ~isLoadingShared
InputSection == Shown /\ ~Truthy(resultText) /\ ~loading
TextContent == Shown /\ Truthy(resultText) /\ ~loading
HistorySectionWhileLoading == Shown /\ Len(history) > 0 /\ ~Truthy(resultText)
HistorySection == Shown /\ Len(history) > 0 /\ ~Truthy(resultText) /\ ~loading

\* The mount effect: handleSharedMemory up to its await (or to its end),
\* then the load of the history.
MountWith(sharedData, dec, loaded) ==
  /\ ~mounted
  /\ mounted' = TRUE
  /\ IF sharedData # NoItem /\ sharedData # <<>>
     THEN IF dec.ok
          THEN /\ query' = dec.d.query
               /\ resultText' = dec.d.resultText
               /\ title' = dec.d.title
               /\ category' = dec.d.category
               /\ imageStyle' = dec.d.imageStyle
               /\ isTitleSet' = TRUE
               /\ loading' = TRUE
               /\ gen' = [kind |-> "shared", query |-> dec.d.query,
                          category |-> dec.d.category,
                          imageStyle |-> dec.d.imageStyle]
               /\ UNCHANGED <<error, isLoadingShared>>
          ELSE /\ error' = "share"
               /\ isLoadingShared' = FALSE
               /\ UNCHANGED <<query, resultText, title, category, imageStyle,
                              isTitleSet, loading, gen>>
     ELSE /\ isLoadingShared' = FALSE
          /\ UNCHANGED <<query, resultText, title, category, imageStyle,
                         isTitleSet, loading, gen, error>>
  /\ history' = loaded.history
  /\ storage' = loaded.store
  /\ url' = NoItem
  /\ expected' = [known |-> TRUE, list |-> loaded.history]
  /\ appended' = 0
  /\ origin' = IF sharedData # NoItem /\ sharedData # <<>> /\ dec.ok
               THEN Origin("shared", dec.d.query) ELSE origin
  /\ last' = Step("mount", TokenClass(url), IF expected.known THEN appended ELSE -1,
                  storage)
  /\ UNCHANGED <<imageUrls, tempTitle, isSpeaking, isPaused, highlightedWordIndex,
                 clock, synth, synthPaused, events, pfVars>>

Mount ==
  MountWith(IF url = NoItem THEN NoItem ELSE SearchParamGet(url),
            DecodeShared(IF url = NoItem THEN NoItem ELSE SearchParamGet(url)),
            LoadHistory(storage))

\* handleSharedMemory behind its await of generateImages.
SharedResolve(img) ==
  /\ gen.kind = "shared"
  /\ gen' = GenNone
  /\ IF img = "ok"
     THEN /\ imageUrls' = GenImages
          /\ loading' = FALSE
          /\ UNCHANGED error
     ELSE /\ error' = "share"
          /\ UNCHANGED <<imageUrls, loading>>
  /\ isLoadingShared' = FALSE
  /\ last' = Step("sharedResolve", img, 0, <<>>)
  /\ UNCHANGED <<query, resultText, category, imageStyle, title, tempTitle, isTitleSet,
                 history, isSpeaking, isPaused, highlightedWordIndex,
                 mounted, url, storage, clock, synth, synthPaused, events,
                 expected, appended, origin, pfVars>>

\* The page is opened again, with any launch parameter.
Reload(param) ==
  /\ mounted
  /\ query' = <<>> /\ resultText' = <<>> /\ imageUrls' = <<>> /\ loading' = FALSE
  /\ error' = "" /\ category' = CatGeneral /\ imageStyle' = StyleFadedPhoto
  /\ title' = <<>> /\ tempTitle' = <<>> /\ isTitleSet' = FALSE /\ history' = <<>>
  /\ isLoadingShared' = TRUE /\ isSpeaking' = FALSE /\ isPaused' = FALSE
  /\ highlightedWordIndex' = -1
  /\ mounted' = FALSE
  /\ url' = param
  /\ synth' = <<>> /\ synthPaused' = FALSE /\ events' = <<>>
  /\ gen' = GenNone
  /\ last' = Step("reload", "", 0, <<>>)
  /\ origin' = OriginNone
  /\ UNCHANGED <<storage, clock, expected, appended, pfVars>>

SetQuery(q) ==
  /\ InputSection
  /\ query' = q
  /\ last' = Step("setQuery", "", 0, <<>>)
  /\ UNCHANGED <<resultText, imageUrls, loading, error, category, imageStyle, title,
                 tempTitle, isTitleSet, history, isLoadingShared, isSpeaking, isPaused,
                 highlightedWordIndex, envVars, expected, appended, origin, pfVars>>

SetCategory(c) ==
  /\ InputSection
  /\ category' = c
  /\ last' = Step("setCategory", "", 0, <<>>)
  /\ UNCHANGED <<query, resultText, imageUrls, loading, error, imageStyle, title,
                 tempTitle, isTitleSet, history, isLoadingShared, isSpeaking, isPaused,
                 highlightedWordIndex, envVars, expected, appended, origin, pfVars>>

SetImageStyle(st) ==
  /\ InputSection
  /\ imageStyle' = st
  /\ last' = Step("setImageStyle", "", 0, <<>>)
  /\ UNCHANGED <<query, resultText, imageUrls, loading, error, category, title,
                 tempTitle, isTitleSet, history, isLoadingShared, isSpeaking, isPaused,
                 highlightedWordIndex, envVars, expected, appended, origin, pfVars>>

\* The setters of handleStartNew.
ResetForNew ==
  /\ isSpeaking' = FALSE /\ isPaused' = FALSE /\ highlightedWordIndex' = -1
  /\ query' = <<>> /\ resultText' = <<>> /\ imageUrls' = <<>>
  /\ title' = <<>> /\ tempTitle' = <<>> /\ isTitleSet' = FALSE /\ error' = ""

HandleStartNew ==
  /\ TextContent /\ isTitleSet
  /\ CancelIfSpeaking
  /\ ResetForNew
  /\ last' = Step("handleStartNew", "", 0, <<>>)
  /\ origin' = OriginNone
  /\ UNCHANGED <<loading, category, imageStyle, history, isLoadingShared,
                 mounted, url, storage, clock, synthPaused, gen,
                 expected, appended, pfVars>>

\* Promise.all: the join goes on only when both requests are fulfilled.
JoinFulfilled(textOk, img) == textOk /\ img # "reject"

\* handleGenerate up to its await: the requests are built from the query,
\* category and style of the render that was clicked.
HandleGenerate ==
  /\ InputSection
  /\ query # Undefined /\ Trim(query) # <<>> /\ ~loading
  /\ CancelIfSpeaking
  /\ ResetForNew
  /\ loading' = TRUE
  /\ gen' = [kind |-> "generate", query |-> query, category |-> category,
             imageStyle |-> imageStyle]
  /\ last' = Step("handleGenerate", "", 0, <<>>)
  /\ origin' = OriginNone
  /\ UNCHANGED <<category, imageStyle, history, isLoadingShared,
                 mounted, url, storage, clock, synthPaused,
                 expected, appended, pfVars>>

\* handleGenerate behind its await: textOk and img say how the two requests
\* ended ("malformed": an image response without generatedImages).
GenResolve(textOk, img, text) ==
  /\ gen.kind = "generate"
  /\ gen' = GenNone
  /\ IF JoinFulfilled(textOk, img)
     THEN /\ resultText' = text
          /\ IF img = "ok"
             THEN imageUrls' = GenImages /\ UNCHANGED error
             ELSE error' = "generate" /\ UNCHANGED imageUrls
     ELSE /\ error' = "generate"
          /\ UNCHANGED <<resultText, imageUrls>>
  /\ loading' = FALSE
  /\ last' = Step("genResolve",
                  IF textOk /\ img = "ok" THEN "ok"
                  ELSE IF textOk /\ img = "malformed" THEN "malformed" ELSE "rejected",
                  0, <<>>)
  /\ origin' = IF JoinFulfilled(textOk, img) THEN Origin("generated", gen.query) ELSE origin
  /\ UNCHANGED <<query, category, imageStyle, title, tempTitle, isTitleSet, history,
                 isLoadingShared, isSpeaking, isPaused, highlightedWordIndex,
                 mounted, url, storage, clock, synth, synthPaused, events,
                 expected, appended, pfVars>>

SetTempTitle(t) ==
  /\ TextContent /\ ~isTitleSet
  /\ tempTitle' = t
  /\ last' = Step("setTempTitle", "", 0, <<>>)
  /\ UNCHANGED <<query, resultText, imageUrls, loading, error, category, imageStyle,
                 title, isTitleSet, history, isLoadingShared, isSpeaking, isPaused,
                 highlightedWordIndex, envVars, expected, appended, origin, pfVars>>

\* handleSetTitle; Date.now() is the clock, which ticks with every memory.
HandleSetTitle(writeOk) ==
  /\ TextContent /\ ~isTitleSet
  /\ IF Trim(tempTitle) # <<>>
     THEN LET newMemory ==
                [id |-> clock + 1, title |-> Trim(tempTitle), query |-> query,
                 category |-> category, imageStyle |-> imageStyle,
                 resultText |-> resultText,
                 imageUrl |-> IF imageUrls = <<>> THEN Undefined ELSE imageUrls[1]]
              updatedHistory == PrependMemory(history, newMemory)
          IN  /\ clock < MaxAppends
              /\ clock' = clock + 1
              /\ title' = Trim(tempTitle)
              /\ isTitleSet' = TRUE
              /\ history' = updatedHistory
              /\ storage' = SaveHistory(storage, updatedHistory, writeOk)
              /\ expected' = IF writeOk /\ expected.known
                             THEN [known |-> TRUE, list |-> <<newMemory>> \o expected.list]
                             ELSE [known |-> FALSE, list |-> <<>>]
              /\ appended' = appended + 1
              /\ origin' = [origin EXCEPT !.entries = @ + 1]
              /\ last' = Step("handleSetTitle", IF writeOk THEN "saved" ELSE "unsaved", 0, <<>>)
     ELSE /\ writeOk
          /\ last' = Step("handleSetTitle", "blank", 0, <<>>)
          /\ UNCHANGED <<clock, title, isTitleSet, history, storage, expected, appended, origin>>
  /\ UNCHANGED <<query, resultText, imageUrls, loading, error, category, imageStyle,
                 tempTitle, isLoadingShared, isSpeaking, isPaused, highlightedWordIndex,
                 mounted, url, synth, synthPaused, events, gen, pfVars>>

LoadMemoryFromHistory(i) ==
  /\ HistorySection
  /\ i \in 1..Len(history)
  /\ CancelIfSpeaking
  /\ isSpeaking' = FALSE /\ isPaused' = FALSE /\ highlightedWordIndex' = -1
  /\ query' = history[i].query
  /\ resultText' = history[i].resultText
  /\ imageUrls' = <<history[i].imageUrl>>
  /\ tempTitle' = history[i].title
  /\ category' = history[i].category
  /\ imageStyle' = history[i].imageStyle
  /\ isTitleSet' = FALSE /\ loading' = FALSE /\ error' = "" /\ title' = <<>>
  /\ last' = Step("loadMemoryFromHistory", "", 0, <<>>)
  /\ origin' = Origin("history", history[i].query)
  /\ UNCHANGED <<history, isLoadingShared, mounted, url, storage, clock, synthPaused,
                 gen, expected, appended, pfVars>>

\* handlePlayToggle: pause, resume, or cancel and speak a new utterance.
HandlePlayToggle ==
  /\ TextContent
  /\ IF isSpeaking /\ ~isPaused
     THEN /\ synthPaused' = TRUE
          /\ isPaused' = TRUE
          /\ last' = Step("handlePlayToggle", "pause", 0, <<>>)
          /\ UNCHANGED <<synth, events>>
     ELSE IF isSpeaking /\ isPaused
     THEN /\ synthPaused' = FALSE
          /\ isPaused' = FALSE
          /\ last' = Step("handlePlayToggle", "resume", 0, <<>>)
          /\ UNCHANGED <<synth, events>>
     ELSE /\ \E evs \in CancelEvents(synth) : Cancel(evs)
          /\ synth' = StartQueue(synth, resultText)
                  /\ last' = Step("handlePlayToggle", "start", Len(synth),
                          IF synth = <<>> THEN <<>> ELSE Head(synth).text)
          /\ UNCHANGED <<synthPaused, isPaused>>
  /\ UNCHANGED <<query, resultText, imageUrls, loading, error, category, imageStyle,
                 title, tempTitle, isTitleSet, history, isLoadingShared, isSpeaking,
                 highlightedWordIndex, mounted, url, storage, clock, gen,
                 expected, appended, origin, pfVars>>

\* The engine: the first utterance of the queue begins, reports a boundary
\* at a character offset behind the last one, ends, or fails.
EngineStep(q, evs) ==
  /\ synth' = q
  /\ events' = events \o evs
  /\ Len(events') <= MaxEvents
  /\ last' = Step("engine", "", 0, <<>>)
  /\ UNCHANGED <<appVars, mounted, url, storage, clock, synthPaused, gen,
                 expected, appended, origin, pfVars>>

EngineBegin ==
  /\ synth # <<>> /\ ~Head(synth).speaking /\ ~synthPaused
  /\ EngineStep([synth EXCEPT ![1].speaking = TRUE],
                <<Ev("start", Head(synth).text, 0, FALSE)>>)

EngineBoundary(c) ==
  /\ synth # <<>> /\ Head(synth).speaking /\ ~synthPaused
  /\ c > Head(synth).pos /\ c < Len(Head(synth).text)
  /\ EngineStep([synth EXCEPT ![1].pos = c],
                <<Ev("boundary", Head(synth).text, c, FALSE)>>)

EngineFinish ==
  /\ synth # <<>> /\ Head(synth).speaking /\ ~synthPaused
  /\ EngineStep(Tail(synth), <<Ev("end", Head(synth).text, 0, FALSE)>>)

EngineFail ==
  /\ synth # <<>>
  /\ EngineStep(Tail(synth), <<Ev("error", Head(synth).text, 0, FALSE)>>)

\* The callbacks of the utterance, run for the oldest queued event.
\* wordMap is the one of the render in which the utterance was made.
OnStart(e) ==
  /\ e.type = "start"
  /\ isSpeaking' = TRUE /\ isPaused' = FALSE /\ highlightedWordIndex' = 0
  /\ UNCHANGED error

OnBoundary(e) ==
  /\ e.type = "boundary"
  /\ LET currentWordIndex == BoundaryWordIndex(WordMap(e.text), e.charIndex) IN
     /\ highlightedWordIndex' =
          IF currentWordIndex # -1 THEN currentWordIndex ELSE highlightedWordIndex
  /\ UNCHANGED <<isSpeaking, isPaused, error>>

OnEndKeepsHighlight(e) ==
  /\ e.type = "end"
  /\ isSpeaking' = FALSE /\ isPaused' = FALSE
  /\ UNCHANGED <<highlightedWordIndex, error>>

OnEnd(e) ==
  /\ e.type = "end"
  /\ isSpeaking' = FALSE /\ isPaused' = FALSE /\ highlightedWordIndex' = -1
  /\ UNCHANGED error

OnError(e) ==
  /\ e.type = "error"
  /\ isSpeaking' = FALSE /\ isPaused' = FALSE /\ highlightedWordIndex' = -1
  /\ error' = "speech"

DeliverEvent ==
  /\ mounted /\ events # <<>>
  /\ LET e == Head(events) IN
     /\ OnStart(e) \/ OnBoundary(e) \/ OnEnd(e) \/ OnError(e)
     /\ last' = Step(CASE e.type = "start" -> "onstart" [] e.type = "boundary" -> "onboundary"
                          [] e.type = "end" -> "onend" [] e.type = "error" -> "onerror",
                     IF e.stale THEN "stale" ELSE "live", e.charIndex, e.text)
  /\ events' = Tail(events)
  /\ UNCHANGED <<query, resultText, imageUrls, loading, category, imageStyle, title,
                 tempTitle, isTitleSet, history, isLoadingShared,
                 mounted, url, storage, clock, synth, synthPaused, gen,
                 expected, appended, origin, pfVars>>

Next ==
  \/ Mount
  \/ \E img \in ImageOutcomes : SharedResolve(img)
  \/ \E param \in LaunchParams : Reload(param)
  \/ \E q \in Queries : SetQuery(q)
  \/ \E c \in Categories : SetCategory(c)
  \/ \E st \in Styles : SetImageStyle(st)
  \/ HandleGenerate
  \/ \E textOk \in BOOLEAN, img \in ImageOutcomes, text \in GenTexts :
       GenResolve(textOk, img, text)
  \/ \E t \in TempTitles : SetTempTitle(t)
  \/ \E writeOk \in BOOLEAN : HandleSetTitle(writeOk)
  \/ HandleStartNew
  \/ \E i \in 1..MaxAppends + 1 : LoadMemoryFromHistory(i)
  \/ HandlePlayToggle
  \/ EngineBegin
  \/ \E c \in 0..MaxTextLen : EngineBoundary(c)
  \/ EngineFinish
  \/ EngineFail
  \/ DeliverEvent

Spec == Init /\ [][Next]_vars

----
\* The program without speech: nobody presses play, so the engine holds no
\* utterance and delivers no event.
NextMemory ==
  \/ Mount
  \/ \E img \in ImageOutcomes : SharedResolve(img)
  \/ \E param \in LaunchParams : Reload(param)
  \/ \E q \in Queries : SetQuery(q)
  \/ \E c \in Categories : SetCategory(c)
  \/ \E st \in Styles : SetImageStyle(st)
  \/ HandleGenerate
  \/ \E textOk \in BOOLEAN, img \in ImageOutcomes, text \in MemoryTexts :
       GenResolve(textOk, img, text)
  \/ \E t \in TempTitles : SetTempTitle(t)
  \/ \E writeOk \in BOOLEAN : HandleSetTitle(writeOk)
  \/ HandleStartNew
  \/ \E i \in 1..MaxAppends + 1 : LoadMemoryFromHistory(i)

SpecMemory == Init /\ [][NextMemory]_vars

\* The program around speech: a page opened plainly or by a shared link,
\* over a stored memory; the handlers that write only the title, the
\* category, the style and localStorage are left out.
InitSpeech ==
  /\ Init
  /\ url \in {NoItem, EncodeShare(SharedSample).v}
  /\ storage = JsonStringify(HistoryJson(<<StoredMemory>>))

NextSpeech ==
  \/ Mount
  \/ \E img \in ImageOutcomes : SharedResolve(img)
  \/ Reload(NoItem)
  \/ \E q \in Queries : SetQuery(q)
  \/ HandleGenerate
  \/ \E textOk \in BOOLEAN, img \in ImageOutcomes, text \in GenTexts :
       GenResolve(textOk, img, text)
  \/ HandleStartNew
  \/ LoadMemoryFromHistory(1)
  \/ HandlePlayToggle
  \/ EngineBegin
  \/ \E c \in 0..MaxTextLen : EngineBoundary(c)
  \/ EngineFinish
  \/ EngineFail
  \/ DeliverEvent

SpecSpeech == InitSpeech /\ [][NextSpeech]_vars

----
\* The pure functions, applied to drawn inputs; the application stays as
\* constructed.
\* The word segmenter over every non-empty text of letters, spaces and
\* line feeds up to MaxTextLen.
InitSeg ==
  /\ pfIn \in SeqsUpTo({97, 32, 10}, MaxTextLen) \ {<<>>} /\ pfOut = <<>> /\ pfPc = "seg"
  /\ FreshApp
  /\ mounted = FALSE /\ url = NoItem /\ storage = NoItem /\ clock = 0
  /\ synth = <<>> /\ synthPaused = FALSE /\ events = <<>>
  /\ gen = GenNone
  /\ last = Step("init", "", 0, <<>>)
  /\ expected = [known |-> FALSE, list |-> <<>>]
  /\ appended = 0
  /\ origin = OriginNone

\* const wordMap = useMemo(...) for resultText = pfIn
Segment ==
  /\ pfPc = "seg"
  /\ pfOut' = WordMap(pfIn)
  /\ pfPc' = "segmented"
  /\ UNCHANGED <<appVars, envVars, obsVars, pfIn>>

SpecSeg == InitSeg /\ [][Segment]_vars

\* The share codec over the data of a memory whose title and narrative
\* are any texts up to MaxFieldLen of: a, ", c-cedilla, dotless i.
SharedDatas ==
  [title : SeqsUpTo({97, 34, 231, 305}, MaxFieldLen),
   resultText : SeqsUpTo({97, 34, 231, 305}, MaxFieldLen), query : {<<>>, <<109>>},
   category : {CatGeneral}, imageStyle : {StyleFadedPhoto, StyleSketch}]

InitCodec ==
  /\ pfIn \in SharedDatas /\ pfOut = <<>> /\ pfPc = "codec"
  /\ FreshApp
  /\ mounted = FALSE /\ url = NoItem /\ storage = NoItem /\ clock = 0
  /\ synth = <<>> /\ synthPaused = FALSE /\ events = <<>>
  /\ gen = GenNone
  /\ last = Step("init", "", 0, <<>>)
  /\ expected = [known |-> FALSE, list |-> <<>>]
  /\ appended = 0
  /\ origin = OriginNone

\* handleCopyLink up to the link: the token, or the exception of btoa.
CopyLink ==
  /\ pfPc = "codec"
  /\ pfOut' = EncodeShare(pfIn).v
  /\ pfPc' = IF EncodeShare(pfIn).ok THEN "copied" ELSE "threw"
  /\ UNCHANGED <<appVars, envVars, obsVars, pfIn>>

\* The link is opened: urlParams.get('share'), then the try block of
\* handleSharedMemory up to its setters.
OpenLink ==
  /\ pfPc = "copied"
  /\ pfOut' = DecodeShared(SearchParamGet(pfOut))
  /\ pfPc' = "opened"
  /\ UNCHANGED <<appVars, envVars, obsVars, pfIn>>

NextCodec == CopyLink \/ OpenLink

SpecCodec == InitCodec /\ [][NextCodec]_vars

----
\* Properties.

SpanWords(wm) == [k \in 1..Len(wm) |-> wm[k].word]
SpanBegins(s, span) ==
  /\ span.startIndex + Len(span.word) <= Len(s)
  /\ SubSeq(s, span.startIndex + 1, span.startIndex + Len(span.word)) = span.word

\* C1: the word spans of a non-empty text partition it: the words joined
\* in order are the text, and each startIndex is where its word begins in
\* the text.  Refuted by every text that begins with white space.
C1_Partition ==
  pfPc = "segmented" =>
    /\ Concat(SpanWords(pfOut)) = pfIn
    /\ \A k \in 1..Len(pfOut) : SpanBegins(pfIn, pfOut[k])

\* C2: a link can be made from every shared data, and opening the link
\* gives that data back.  Refuted by a title or a narrative that holds a
\* character above U+00FF (dotless i), for which btoa throws.
C2_RoundTrip ==
  /\ pfPc # "threw"
  /\ pfPc = "opened" => pfOut.ok /\ pfOut.d = pfIn

\* C3: a malformed share parameter (bad percent-encoding, bad base64, bad
\* JSON, a value without one of the five fields) leaves the error of the
\* shared link set, none of the fields applied, nothing loading and no
\* image request in flight.  Refuted by an object without a title.
Malformed == {"percent", "base64", "json", "missing"}
C3_FailsSoft ==
  (last.op = "mount" /\ last.tag \in Malformed) =>
    /\ error = "share"
    /\ query = <<>> /\ resultText = <<>> /\ title = <<>>
    /\ category = CatGeneral /\ imageStyle = StyleFadedPhoto /\ ~isTitleSet
    /\ ~loading /\ gen = GenNone

\* C4: the engine never holds more than one utterance, and right after
\* playback is started it holds exactly the utterance of the text shown.
C4_OneUtterance ==
  /\ Len(synth) <= 1
  /\ (last.op = "handlePlayToggle" /\ last.tag = "start") =>
       synth = <<Utterance(resultText)>>

\* Playback of a text was started while the utterance of another text was
\* in the engine.
C4_Replaced ==
  /\ last.op = "handlePlayToggle" /\ last.tag = "start"
  /\ last.num = 1 /\ last.txt # resultText
  /\ synth = <<Utterance(resultText)>>

SpanAt(wm, charIndex) == \E k \in 1..Len(wm) : wm[k].startIndex <= charIndex
LastSpanAt(wm, charIndex, idx) ==
  /\ idx \in 0..Len(wm) - 1
  /\ wm[idx + 1].startIndex <= charIndex
  /\ \A k \in idx + 2..Len(wm) : wm[k].startIndex > charIndex

\* C5: a boundary callback of the utterance in the engine, at an offset
\* that some span starts at or before, sets highlightedWordIndex to the
\* last span that starts at or before the offset, and never to less than
\* it was (the engine reports increasing offsets).
C5_Boundary ==
  [][(/\ last'.op = "onboundary" /\ last'.tag = "live"
      /\ SpanAt(WordMap(last'.txt), last'.num))
     => /\ LastSpanAt(WordMap(last'.txt), last'.num, highlightedWordIndex')
        /\ highlightedWordIndex' >= highlightedWordIndex]_vars

\* The boundary at the second word of "a b" moved the highlight there.
C5_SecondWord ==
  /\ last.op = "onboundary" /\ last.tag = "live"
  /\ last.txt = <<97, 32, 98>> /\ last.num = 2
  /\ highlightedWordIndex = 1

\* C6: a startup that follows appends whose writes succeeded loads the
\* appended memories, newest first, in front of the history the startup
\* before them had loaded.
C6_Order ==
  [][(last'.op = "mount" /\ expected.known) => history' = expected.list]_vars

\* Two memories were appended over the stored one, and the next startup
\* loaded [M2, M1, H].
C6_Reloaded ==
  /\ last.op = "mount" /\ last.num = 2
  /\ Len(history) = 3
  /\ history[1].id = 2 /\ history[2].id = 1 /\ history[3] = StoredMemory

\* C7: when the images of a shared link cannot be made, the error is set,
\* nothing is loading, and the narrative and the title are shown.
\* Refuted: loading stays true, so the result section is not rendered.
C7_Recovers ==
  (last.op = "sharedResolve" /\ last.tag # "ok") =>
    /\ error = "share"
    /\ ~loading
    /\ TextContent /\ title # <<>>

\* C8: when handleGenerate has run to its end nothing is loading and no
\* request is in flight; the narrative and the images are set only when
\* both requests gave their part, and in every other ending the error is
\* set and both stay empty.  Refuted by an image response that is
\* fulfilled without generatedImages: the narrative is set at line 378
\* before line 380 throws.
C8_Join ==
  last.op = "genResolve" =>
    /\ ~loading /\ gen = GenNone
    /\ last.tag = "ok" => error = "" /\ imageUrls = GenImages
    /\ last.tag # "ok" =>
         error = "generate" /\ resultText = <<>> /\ imageUrls = <<>>

\* The snapshot a startup found, as far as the claim about it goes.
Unparsable(found) == found # NoItem /\ ~JsonParse(found).ok
Parsable(found) == found # NoItem /\ JsonParse(found).ok
LoadedAs(found) ==
  /\ Parsable(found) => storage = found /\ JsonStringify(HistoryJson(history)) = found
  /\ found = NoItem => history = <<>> /\ storage = NoItem

\* C9 as stated: after a startup that found a snapshot that cannot be
\* parsed the history is empty and the entry is gone; after one that
\* found a snapshot that parses the history is the stored list.  Refuted
\* by the empty text, which is not removed.
C9_AsStated ==
  last.op = "mount" =>
    /\ Unparsable(last.txt) => history = <<>> /\ storage = NoItem
    /\ LoadedAs(last.txt)

\* C9: after a startup that found a snapshot that is not empty and cannot
\* be parsed the history is empty and the entry is gone; after one that
\* found an empty snapshot the history is empty and the entry is as it
\* was; after one that found a snapshot that parses the history is the
\* stored list.
C9_Load ==
  last.op = "mount" =>
    /\ (Unparsable(last.txt) /\ last.txt # <<>>) => history = <<>> /\ storage = NoItem
    /\ last.txt = <<>> => history = <<>> /\ storage = <<>>
    /\ LoadedAs(last.txt)

\* A startup found a cut-off snapshot and removed it.
C9_Removed ==
  /\ last.op = "mount" /\ last.txt = <<91, 123>>
  /\ history = <<>> /\ storage = NoItem

\* C10: while playback is paused and stays paused, highlightedWordIndex
\* does not change.  Refuted by a boundary callback that the engine had
\* queued before the pause was requested.
C10_Frozen ==
  [][(isSpeaking /\ isPaused /\ isSpeaking' /\ isPaused')
     => highlightedWordIndex' = highlightedWordIndex]_vars

\* A step that puts a new utterance into the queue of the engine.
StartsUtterance == synth' # synth /\ synth' # <<>> /\ ~Head(synth').speaking

\* C11: when onend or onerror has run, playback is idle (isSpeaking and
\* isPaused false) and no word is highlighted; onerror has also set the
\* playback error; and a new utterance enters the engine only by a press
\* of play that starts playback.
C11_Idle ==
  [][/\ last'.op \in {"onend", "onerror"} =>
          ~isSpeaking' /\ ~isPaused' /\ highlightedWordIndex' = -1
     /\ last'.op = "onerror" => error' = "speech"
     /\ StartsUtterance => last'.op = "handlePlayToggle" /\ last'.tag = "start"]_vars

\* The engine failed while the utterance of the narrative was spoken, and
\* onerror has run: idle, error shown, nothing queued.
C11_Failed ==
  /\ last.op = "onerror" /\ last.tag = "live" /\ last.txt = resultText
  /\ ~isSpeaking /\ ~isPaused /\ highlightedWordIndex = -1
  /\ error = "speech" /\ synth = <<>>

\* C12: a request group is in flight only while loading is true; a group
\* is issued (by handleGenerate, or by the mount effect for a shared
\* link) only when none is in flight and nothing is loading; and while a
\* group is in flight only its own resolution, or leaving the page, ends
\* it or clears loading.
C12_OneGroup ==
  [][/\ gen'.kind # "none" => loading'
     /\ (last'.op = "handleGenerate" \/ (last'.op = "mount" /\ gen'.kind # "none")) =>
          gen.kind = "none" /\ ~loading
     /\ (gen.kind # "none" /\ (~loading' \/ gen' # gen)) =>
          last'.op \in {"genResolve", "sharedResolve", "reload"}]_vars

\* A generation is in flight on a page that has a history: neither the
\* input section nor the history section is rendered.
C12_InFlight ==
  /\ gen.kind = "generate" /\ loading /\ Shown /\ Len(history) > 0
  /\ ~InputSection /\ ~HistorySection

\* C13: the result on the page has put a memory into the history only if
\* it came from a generation, and then at most one; a result opened from
\* the history or from a shared link has put in none.  Refuted by a
\* memory opened from the history: loadMemoryFromHistory clears isTitleSet
\* and fills tempTitle, and handleSetTitle appends it again.
C13_OnePerGeneration ==
  origin.entries <= (IF origin.kind = "generated" THEN 1 ELSE 0)

\* C14: the memory that handleSetTitle makes of a generated result holds
\* the query the prompts of that generation were built from.  Refuted:
\* handleGenerate builds the prompts from the query of its render and
\* handleStartNew(false) sets the query state to '', which is what the
\* memory gets.
C14_QueryKept ==
  [][(last'.op = "handleSetTitle" /\ last'.tag # "blank" /\ origin.kind = "generated") =>
       history'[1].query = origin.query]_vars

\* The engine holds an active utterance of the narrative: it is queued or
\* spoken, or it is over and its end or error callback is still to run.
ActiveUtterance ==
  \/ synth # <<>> /\ Head(synth).text = resultText
  \/ \E i \in 1..Len(events) :
       ~events[i].stale /\ events[i].type \in {"end", "error"} /\ events[i].text = resultText

\* C15: whenever playback is Speaking or Paused the engine holds an
\* active utterance of the current narrative, and a callback of an
\* utterance that was cancelled does not change the playback state.
\* Refuted: start-new leaves a queued utterance that has not begun in the
\* engine, and no callback looks at which utterance it belongs to.
C15_Session ==
  [][/\ isSpeaking' => ActiveUtterance'
     /\ (last'.op \in {"onstart", "onboundary", "onend", "onerror"} /\ last'.tag = "stale") =>
          UNCHANGED <<isSpeaking, isPaused, highlightedWordIndex>>]_vars

\* C16: while playback is idle (isSpeaking false) no word is highlighted.
\* Refuted: onboundary sets the index without looking at the playback
\* state, so a boundary callback that runs after a stop highlights a word
\* of the idle page.
C16_IdleHighlight == ~isSpeaking => highlightedWordIndex = -1

\* C17: the highlighted index is -1 or the index of a word span of the
\* current narrative.  Refuted by a narrative of white space only: it has
\* no span, and onstart sets the index to 0.
C17_ValidIndex ==
  \/ highlightedWordIndex = -1
  \/ highlightedWordIndex >= 0 /\ highlightedWordIndex < Len(WordMap(resultText))

====
